---- MODULE Spec2Model ----
(***************************************************************************)
(* Model of src/ecflow/spt_extract_plain_table.py: extract_summary_table,  *)
(* from the point where the ensemble statistic files and the return-period *)
(* table have been read (line 82) to the function's return.                *)
(*                                                                         *)
(* Numbers.  Python floats are modelled as exact rationals <<n, d>> with   *)
(* d > 0 in lowest terms; <<0, 0>> stands for NaN (a missing cell).  Times *)
(* are whole seconds since the epoch, as in the netCDF 'time' variable.    *)
(*                                                                         *)
(* Three specifications.                                                   *)
(*   Spec          the function as written.  The for statement of line 119 *)
(*                 iterates over enumerate(zip(...)), whose items are      *)
(*                 pairs, and unpacks each into five targets: the first    *)
(*                 item raises ValueError, so the body never runs.         *)
(*   SpecLoop      the same for statement, body, to_csv and handler, run   *)
(*                 over items of five values, so that the body (lines      *)
(*                 120-188) is exercised.                                  *)
(*   SpecClassify  the three classification chains (lines 129-174) applied *)
(*                 to one mean and one row of thresholds.                  *)
(* Not modelled: the nces calls, the directory listing and the reading of  *)
(* the netCDF files (lines 34-74); their results are the inputs.           *)
(***************************************************************************)
EXTENDS Integers, Sequences, FiniteSets, TLC

\* ------------------------------------------------------------------ bounds
\* Largest number of reaches (rivid entries) in the statistic files.
MaxReaches == 2
\* The thresholds of SpecClassify are drawn from 10 * (0..MaxLevel).
MaxLevel == 2

\* ------------------------------------------------------- rational numbers
Abs(x) == IF x < 0 THEN 0 - x ELSE x

RECURSIVE GCD(_, _)
GCD(a, b) == IF b = 0 THEN a ELSE GCD(b, a % b)

Norm(n, d) == LET g == GCD(Abs(n), d) IN <<n \div g, d \div g>>

Num(k) == <<k, 1>>
Cents(k) == Norm(k, 100)
Milli(k) == Norm(k, 1000)

RNeg(a) == <<0 - a[1], a[2]>>
RAdd(a, b) ==
  LET g == GCD(a[2], b[2])
  IN  Norm(a[1] * (b[2] \div g) + b[1] * (a[2] \div g), (a[2] \div g) * b[2])
RSub(a, b) == RAdd(a, RNeg(b))
RMul(a, b) ==
  LET g1 == GCD(Abs(a[1]), b[2])
      g2 == GCD(Abs(b[1]), a[2])
  IN  Norm((a[1] \div g1) * (b[1] \div g2), (a[2] \div g2) * (b[2] \div g1))
RInv(a) == IF a[1] < 0 THEN <<0 - a[2], 0 - a[1]>> ELSE <<a[2], a[1]>>
RDiv(a, b) == RMul(a, RInv(b))
RLt(a, b) == a[1] * b[2] < b[1] * a[2]
RLe(a, b) == a[1] * b[2] <= b[1] * a[2]
RGt(a, b) == RLt(b, a)
RSign(a) == IF a[1] > 0 THEN 1 ELSE IF a[1] < 0 THEN 0 - 1 ELSE 0
RAbs(a) == <<Abs(a[1]), a[2]>>

\* numpy/pandas round(2): to the nearest hundredth, a tie to the even one.
RoundHalfEven(n, d) ==
  LET fl == n \div d
      r  == n % d
  IN  IF 2 * r < d THEN fl
      ELSE IF 2 * r > d THEN fl + 1
      ELSE IF fl % 2 = 0 THEN fl ELSE fl + 1

Round2(a) == Cents(RoundHalfEven(a[1] * 100, a[2]))

NaN == <<0, 0>>

\* --------------------------------------------------- threshold classifier
\* A row of rp_df: the six return-period thresholds of one reach.
RpRow(r2, r5, r10, r25, r50, r100) ==
  [return_2 |-> r2, return_5 |-> r5, return_10 |-> r10,
   return_25 |-> r25, return_50 |-> r50, return_100 |-> r100]

\* Faulty variant of Color: '>=' instead of '>' on return_50.
ColorInclusive50(f_mean, rp) ==
  IF RLe(rp.return_50, f_mean) THEN "purple"
  ELSE IF RGt(f_mean, rp.return_10) THEN "red"
  ELSE IF RGt(f_mean, rp.return_2) THEN "yellow"
  ELSE "blue"

\* Faulty variant of Color: the 'red' and 'yellow' results exchanged.
ColorSwapped(f_mean, rp) ==
  IF RGt(f_mean, rp.return_50) THEN "purple"
  ELSE IF RGt(f_mean, rp.return_10) THEN "yellow"
  ELSE IF RGt(f_mean, rp.return_2) THEN "red"
  ELSE "blue"

\* lines 130-138
Color(f_mean, rp) ==
  IF RGt(f_mean, rp.return_50) THEN "purple"
  ELSE IF RGt(f_mean, rp.return_10) THEN "red"
  ELSE IF RGt(f_mean, rp.return_2) THEN "yellow"
  ELSE "blue"

\* Faulty variant of Thickness: 'f_mean <= 20' instead of 'f_mean < 20'.
ThicknessInclusive20(f_mean) ==
  IF RLe(f_mean, Num(20)) THEN "1"
  ELSE IF RLe(Num(20), f_mean) /\ RLt(f_mean, Num(250)) THEN "2"
  ELSE IF RLe(Num(250), f_mean) /\ RLt(f_mean, Num(1500)) THEN "3"
  ELSE IF RLe(Num(1500), f_mean) /\ RLt(f_mean, Num(10000)) THEN "4"
  ELSE IF RLe(Num(10000), f_mean) /\ RLt(f_mean, Num(30000)) THEN "5"
  ELSE "6"

\* lines 143-154
Thickness(f_mean) ==
  IF RLt(f_mean, Num(20)) THEN "1"
  ELSE IF RLe(Num(20), f_mean) /\ RLt(f_mean, Num(250)) THEN "2"
  ELSE IF RLe(Num(250), f_mean) /\ RLt(f_mean, Num(1500)) THEN "3"
  ELSE IF RLe(Num(1500), f_mean) /\ RLt(f_mean, Num(10000)) THEN "4"
  ELSE IF RLe(Num(10000), f_mean) /\ RLt(f_mean, Num(30000)) THEN "5"
  ELSE "6"

\* Faulty variant of RetPer: return_25 tested before return_50.
RetPer25First(f_mean, rp) ==
  IF RGt(f_mean, rp.return_100) THEN "100"
  ELSE IF RGt(f_mean, rp.return_25) THEN "25"
  ELSE IF RGt(f_mean, rp.return_50) THEN "50"
  ELSE IF RGt(f_mean, rp.return_10) THEN "10"
  ELSE IF RGt(f_mean, rp.return_5) THEN "5"
  ELSE IF RGt(f_mean, rp.return_2) THEN "2"
  ELSE "0"

\* lines 159-172
RetPer(f_mean, rp) ==
  IF RGt(f_mean, rp.return_100) THEN "100"
  ELSE IF RGt(f_mean, rp.return_50) THEN "50"
  ELSE IF RGt(f_mean, rp.return_25) THEN "25"
  ELSE IF RGt(f_mean, rp.return_10) THEN "10"
  ELSE IF RGt(f_mean, rp.return_5) THEN "5"
  ELSE IF RGt(f_mean, rp.return_2) THEN "2"
  ELSE "0"

\* ------------------------------------------------------------ dates, grid
\* The frequency '3H' of the grid, in seconds (line 92).
Freq3H == 10800

\* utcfromtimestamp(t).strftime("%m/%d/%y %H:%M") (lines 86, 94): the text
\* keeps the calendar day, the hour and the minute, and drops the seconds.
\* The text is modelled as <<day, hour, minute>>; every date of the model
\* lies in the one century in which the two-digit year %y names one year.
Strftime(t) == <<t \div 86400, (t % 86400) \div 3600, (t % 3600) \div 60>>

\* pandas' parse of such a text (pd.date_range's start/end, pd.to_datetime).
ParseDate(s) == s[1] * 86400 + s[2] * 3600 + s[3] * 60

\* pd.date_range(start, end, freq): start, start + freq, ... while <= end.
DateRange(start, end, freq) ==
  IF end < start THEN << >>
  ELSE [k \in 1..((end - start) \div freq + 1) |-> start + (k - 1) * freq]

\* The sequence is strictly increasing.
StrictlyIncreasing(x) == \A k \in 1..(Len(x) - 1) : x[k] < x[k + 1]

\* lines 84-86
FormatDates(raw) == [k \in 1..Len(raw) |-> Strftime(raw[k])]
\* lines 89-93
InterpX(ds) == DateRange(ParseDate(ds[1]), ParseDate(ds[Len(ds)]), Freq3H)
\* lines 94-95
NewDates(ix) == [k \in 1..Len(ix) |-> Strftime(ix[k])]
\* line 96
DtDates(ds) == [k \in 1..Len(ds) |-> ParseDate(ds[k])]

\* ------------------------------------------- scipy.interpolate.pchip
\* The abscissae are whole minutes (every parsed date is one), which keeps
\* the exact arithmetic small; the interpolant does not depend on the unit.
PchipH(x, k) == Num((x[k + 1] - x[k]) \div 60)
PchipM(x, y, k) == RDiv(RSub(y[k + 1], y[k]), PchipH(x, k))

\* PchipInterpolator._edge_case
PchipEdge(h0, h1, m0, m1) ==
  LET d == RDiv(RSub(RMul(RAdd(RMul(Num(2), h0), h1), m0), RMul(h0, m1)),
                RAdd(h0, h1))
  IN  IF RSign(d) # RSign(m0) THEN Num(0)
      ELSE IF RSign(m0) # RSign(m1) /\ RGt(RAbs(d), RMul(Num(3), RAbs(m0)))
           THEN RMul(Num(3), m0)
      ELSE d

\* PchipInterpolator._find_derivatives: the derivative at point k.
PchipD(x, y, k) ==
  LET n == Len(x)
  IN  IF n = 2 THEN PchipM(x, y, 1)
      ELSE IF k = 1
           THEN PchipEdge(PchipH(x, 1), PchipH(x, 2), PchipM(x, y, 1), PchipM(x, y, 2))
      ELSE IF k = n
           THEN PchipEdge(PchipH(x, n - 1), PchipH(x, n - 2),
                          PchipM(x, y, n - 1), PchipM(x, y, n - 2))
      ELSE LET m0 == PchipM(x, y, k - 1)
               m1 == PchipM(x, y, k)
               w1 == RAdd(RMul(Num(2), PchipH(x, k)), PchipH(x, k - 1))
               w2 == RAdd(PchipH(x, k), RMul(Num(2), PchipH(x, k - 1)))
           IN  IF RSign(m0) # RSign(m1) \/ m0[1] = 0 \/ m1[1] = 0 THEN Num(0)
               ELSE RDiv(RAdd(w1, w2), RAdd(RDiv(w1, m0), RDiv(w2, m1)))

\* The interval a query time falls in (the end intervals extrapolate).
PchipInterval(x, t) ==
  LET inside == {k \in 1..(Len(x) - 1) : x[k] <= t /\ t < x[k + 1]}
  IN  IF t < x[1] THEN 1
      ELSE IF inside = {} THEN Len(x) - 1
      ELSE CHOOSE k \in inside : TRUE

\* The cubic Hermite polynomial of the interval, evaluated at t.
PchipEval(x, y, t) ==
  LET k  == PchipInterval(x, t)
      h  == PchipH(x, k)
      s  == RDiv(Num((t - x[k]) \div 60), h)
      s2 == RMul(s, s)
      s3 == RMul(s2, s)
      h00 == RAdd(RSub(RMul(Num(2), s3), RMul(Num(3), s2)), Num(1))
      h10 == RAdd(RSub(s3, RMul(Num(2), s2)), s)
      h01 == RSub(RMul(Num(3), s2), RMul(Num(2), s3))
      h11 == RSub(s3, s2)
  IN  RAdd(RAdd(RMul(h00, y[k]), RMul(h10, RMul(h, PchipD(x, y, k)))),
           RAdd(RMul(h01, y[k + 1]), RMul(h11, RMul(h, PchipD(x, y, k + 1)))))

\* The constructor's checks: it raises ValueError unless they hold.
PchipValid(x, y) == Len(x) >= 2 /\ Len(y) = Len(x) /\ StrictlyIncreasing(x)

\* lines 121-124: the interpolator called on the grid.
Interpolate(x, y, grid) == [j \in 1..Len(grid) |-> PchipEval(x, y, grid[j])]

\* --------------------------------------------------------- the loop body
Min(a, b) == IF a < b THEN a ELSE b
Max(a, b) == IF a < b THEN b ELSE a

\* Missing cells of a data frame: NaN (numbers), NaT below (timestamps), NaS (text).
NaT == << >>
NaS == "NaN"
NoComid == 0 - 1
Cell(col, j, missing) == IF j <= Len(col) THEN col[j] ELSE missing

\* Faulty variant of Classify: colors misses the last grid point.
ClassifyAllButLast(int_mean, rp) ==
  [colors      |-> [j \in 1..(Len(int_mean) - 1) |-> Color(int_mean[j], rp)],
   thicknesses |-> [j \in 1..Len(int_mean) |-> Thickness(int_mean[j])],
   ret_pers    |-> [j \in 1..Len(int_mean) |-> RetPer(int_mean[j], rp)]]

\* lines 126-174: the three lists built by the loop over int_mean.
Classify(int_mean, rp) ==
  [colors      |-> [j \in 1..Len(int_mean) |-> Color(int_mean[j], rp)],
   thicknesses |-> [j \in 1..Len(int_mean) |-> Thickness(int_mean[j])],
   ret_pers    |-> [j \in 1..Len(int_mean) |-> RetPer(int_mean[j], rp)]]

\* line 179: pd.Series([comid for comid in range(len(new_dates))])
ComidColumn(comid, nd) == [j \in 1..Len(nd) |-> j - 1]

\* lines 177-187: pd.DataFrame from seven Series; a Series shorter than the
\* longest leaves missing cells.
SiteFrame(c0, c1, c2, c3, c4, c5, c6) ==
  LET n == Max(Max(Max(Len(c0), Len(c1)), Max(Len(c2), Len(c3))),
               Max(Max(Len(c4), Len(c5)), Len(c6)))
  IN  [j \in 1..n |->
         [comid     |-> Cell(c0, j, NoComid),
          timestamp |-> Cell(c1, j, NaT),
          max       |-> Cell(c2, j, NaN),
          mean      |-> Cell(c3, j, NaN),
          color     |-> Cell(c4, j, NaS),
          thickness |-> Cell(c5, j, NaS),
          ret_per   |-> Cell(c6, j, NaS)]]

RoundAll(col) == [j \in 1..Len(col) |-> Round2(col[j])]

\* lines 120-187 for one item: the exception the body raises, or the frame.
SiteSummary(comid, maxes, means, x, grid, nd, rp) ==
  IF ~PchipValid(x, maxes) \/ ~PchipValid(x, means)
  THEN [exc |-> "ValueError", rows |-> << >>]
  ELSE LET int_max  == Interpolate(x, maxes, grid)
           int_mean == Interpolate(x, means, grid)
       IN  IF Len(int_mean) > 0 /\ comid \notin DOMAIN rp
           THEN [exc |-> "KeyError", rows |-> << >>]
           ELSE LET lists == IF Len(int_mean) = 0
                             THEN [colors |-> << >>, thicknesses |-> << >>,
                                   ret_pers |-> << >>]
                             ELSE Classify(int_mean, rp[comid])
                IN  [exc  |-> "none",
                     rows |-> SiteFrame(ComidColumn(comid, nd), nd,
                                        RoundAll(int_max), RoundAll(int_mean),
                                        lists.colors, lists.thicknesses,
                                        lists.ret_pers)]

\* zip(comids, new_dates, maxlist, meanlist) of line 119
Zip4(a, b, c, d) ==
  [k \in 1..Min(Min(Len(a), Len(b)), Min(Len(c), Len(d))) |->
     <<a[k], b[k], c[k], d[k]>>]

\* enumerate(...) of line 119: pairs (index, item).
Enumerate(z) == [k \in 1..Len(z) |-> <<k - 1, z[k]>>]

\* The number of targets of the for statement of line 119:
\* index, comid, date, maxes, means.
ForTargets == 5

\* ------------------------------------------------------------- the inputs
\* rivid values a statistic file may list, in any order, none twice.
ReachIds == 101..(100 + MaxReaches)
ComidChoices ==
  UNION {{c \in [1..n -> ReachIds] : \A i, j \in 1..n : i # j => c[i] # c[j]} :
         n \in 0..MaxReaches}

\* The 'time' variable of the statistic files (seconds since the epoch).
RawDateChoices ==
  {<< >>, <<0>>, <<0, 3600, 18000>>, <<30, 3630, 18030>>, <<0, 14400>>,
   <<50, 10810>>, <<0, 20, 7200>>, <<3600, 0>>, <<0, 10800, 21600>>,
   <<0, 7200>>}

\* Qout of nces.max.nc and nces.avg.nc for one reach, in thousandths.
ProfilePairs ==
  {[max |-> <<7000, 80000, 6000000>>, avg |-> <<5000, 50000, 5000000>>],
   [max |-> <<21004, 24996, 30000>>, avg |-> <<19990, 20000, 20004>>]}
RawSeries(profile, n) == [k \in 1..n |-> Milli(profile[k])]

\* The return-period file: thresholds for some of the reaches.
RpTables ==
  {RpRow(Num(10), Num(20), Num(100), Num(500), Num(1000), Num(5000)),
   RpRow(Num(5), Num(10), Num(20), Num(20), Num(20), Num(50))}
RpChoices == UNION {[S -> RpTables] : S \in SUBSET ReachIds}

\* The inputs of the classifier check.
ThresholdValues == {Num(10 * k) : k \in 0..MaxLevel}
ThresholdTables ==
  {RpRow(t[1], t[2], t[3], t[4], t[5], t[6]) : t \in [1..6 -> ThresholdValues]}
BandEdges == {Num(20), Num(250), Num(1500), Num(10000), Num(30000)}
MeanValues ==
  {m \in {RAdd(e, Cents(dl)) : e \in BandEdges \cup ThresholdValues,
                               dl \in {0 - 1, 0, 1}} : m[1] >= 0}

\* ---------------------------------------------------------------- state
VARIABLES
  comids,            \* rivid of the statistic files (line 82)
  rawdates,          \* time of the statistic files (line 83)
  qout,              \* Qout of nces.max.nc and nces.avg.nc, a row per reach
  rp_df,             \* the return-period frame, keyed by rivid (line 74)
  pc,                \* where extract_summary_table is
  dates,             \* line 84
  interp_x,          \* line 89
  new_dates,         \* line 95
  dt_dates,          \* line 96
  maxlist, meanlist, \* lines 99-100
  work,              \* what the iterator of line 119 has yet to yield
  summary_table_df,  \* line 118
  csv,               \* the summary table file of line 190
  result,            \* what the function returned
  exc,               \* the exception raised, "none" without one
  f_mean, thresholds, color, thickness, ret_per, cpc  \* one classification

inputVars == <<comids, rawdates, qout, rp_df>>
gridVars  == <<dates, interp_x, new_dates, dt_dates>>
statVars  == <<maxlist, meanlist>>
classVars == <<f_mean, thresholds, color, thickness, ret_per, cpc>>
vars == <<inputVars, gridVars, statVars, classVars, pc, work,
          summary_table_df, csv, result, exc>>

NoFile == [written |-> FALSE, rows |-> << >>]

ClassIdle ==
  /\ f_mean = Num(0)
  /\ thresholds = RpRow(Num(0), Num(0), Num(0), Num(0), Num(0), Num(0))
  /\ color = "" /\ thickness = "" /\ ret_per = ""
  /\ cpc = "idle"

DrawInputs ==
  /\ comids \in ComidChoices
  /\ rawdates \in RawDateChoices
  /\ \E pr \in [1..Len(comids) -> ProfilePairs] :
       qout = [max |-> [i \in 1..Len(comids) |-> RawSeries(pr[i].max, Len(rawdates))],
               avg |-> [i \in 1..Len(comids) |-> RawSeries(pr[i].avg, Len(rawdates))]]
  /\ rp_df \in RpChoices

\* The state at line 82: the files are there, nothing is computed yet.
Init ==
  /\ DrawInputs
  /\ pc = "start"
  /\ dates = << >> /\ interp_x = << >> /\ new_dates = << >> /\ dt_dates = << >>
  /\ maxlist = << >> /\ meanlist = << >>
  /\ work = << >>
  /\ summary_table_df = << >>
  /\ csv = NoFile
  /\ result = "running"
  /\ exc = "none"
  /\ ClassIdle

\* ---------------------------------------------------------------- actions
Raise(e) ==
  /\ exc' = e
  /\ pc' = "except"

\* lines 82-96: the dates as text, the 3-hour grid, the parsed dates.
\* dates[0] of an empty list raises IndexError.
ReadDates ==
  /\ pc = "start"
  /\ dates' = FormatDates(rawdates)
  /\ IF Len(rawdates) = 0
     THEN /\ Raise("IndexError")
          /\ UNCHANGED <<interp_x, new_dates, dt_dates>>
     ELSE /\ interp_x' = InterpX(dates')
          /\ new_dates' = NewDates(interp_x')
          /\ dt_dates' = DtDates(dates')
          /\ pc' = "stats"
          /\ exc' = exc
  /\ UNCHANGED <<inputVars, statVars, classVars, work, summary_table_df, csv, result>>

\* lines 99-114: a list of rounded samples per reach, for max and for avg.
LoadStats ==
  /\ pc = "stats"
  /\ maxlist' = [i \in 1..Len(comids) |-> RoundAll(qout.max[i])]
  /\ meanlist' = [i \in 1..Len(comids) |-> RoundAll(qout.avg[i])]
  /\ pc' = "frame"
  /\ UNCHANGED <<inputVars, gridVars, classVars, work, summary_table_df, csv,
                 result, exc>>

\* lines 117-119: the empty frame and the iterator of the for statement.
BeginLoop ==
  /\ pc = "frame"
  /\ summary_table_df' = << >>
  /\ work' = Enumerate(Zip4(comids, new_dates, maxlist, meanlist))
  /\ pc' = "loop"
  /\ UNCHANGED <<inputVars, gridVars, statVars, classVars, csv, result, exc>>

\* lines 119-188: one turn of the for statement.  The next item is unpacked
\* into the five targets (ValueError unless it has five elements), the body
\* builds the site's frame and line 188 appends it; an exhausted iterator
\* ends the loop.
ForStep ==
  /\ pc = "loop"
  /\ IF work = << >>
     THEN /\ pc' = "write"
          /\ UNCHANGED <<work, summary_table_df, exc>>
     ELSE LET item == Head(work)
          IN  IF Len(item) # ForTargets
              THEN /\ Raise("ValueError")
                   /\ UNCHANGED <<work, summary_table_df>>
              ELSE LET site == SiteSummary(item[2], item[4], item[5], dt_dates,
                                           interp_x, new_dates, rp_df)
                   IN  IF site.exc # "none"
                       THEN /\ Raise(site.exc)
                            /\ UNCHANGED <<work, summary_table_df>>
                       ELSE /\ summary_table_df' = summary_table_df \o site.rows
                            /\ work' = Tail(work)
                            /\ pc' = "loop"
                            /\ exc' = exc
  /\ UNCHANGED <<inputVars, gridVars, statVars, classVars, csv, result>>

\* lines 190-192: the table is written and the function returns.
WriteCsv ==
  /\ pc = "write"
  /\ csv' = [written |-> TRUE, rows |-> summary_table_df]
  /\ result' = "Stat Success"
  /\ pc' = "done"
  /\ UNCHANGED <<inputVars, gridVars, statVars, classVars, work,
                 summary_table_df, exc>>

\* lines 193-194: any exception is logged and the function returns None.
ExceptHandler ==
  /\ pc = "except"
  /\ result' = "None"
  /\ pc' = "done"
  /\ UNCHANGED <<inputVars, gridVars, statVars, classVars, work,
                 summary_table_df, csv, exc>>

Next == ReadDates \/ LoadStats \/ BeginLoop \/ ForStep \/ WriteCsv \/ ExceptHandler

Spec == Init /\ [][Next]_vars

\* ------------------------------------------------- the loop on its own
\* The for statement of lines 119-194 run over items that carry the five
\* values its targets name, (index, comid, date, maxes, means), built from
\* the same inputs by the same steps as above.
FlatItems(z) == [k \in 1..Len(z) |-> <<k - 1>> \o z[k]]

InitLoop ==
  /\ DrawInputs
  /\ Len(rawdates) > 0
  /\ pc = "loop"
  /\ dates = FormatDates(rawdates)
  /\ interp_x = InterpX(dates)
  /\ new_dates = NewDates(interp_x)
  /\ dt_dates = DtDates(dates)
  /\ maxlist = [i \in 1..Len(comids) |-> RoundAll(qout.max[i])]
  /\ meanlist = [i \in 1..Len(comids) |-> RoundAll(qout.avg[i])]
  /\ work = FlatItems(Zip4(comids, new_dates, maxlist, meanlist))
  /\ summary_table_df = << >>
  /\ csv = NoFile
  /\ result = "running"
  /\ exc = "none"
  /\ ClassIdle

NextLoop == ForStep \/ WriteCsv \/ ExceptHandler

SpecLoop == InitLoop /\ [][NextLoop]_vars

\* ------------------------------------------- the classifier on its own
\* lines 129-174 for one value of int_mean and one row of rp_df.
InitClassify ==
  /\ f_mean \in MeanValues
  /\ thresholds \in ThresholdTables
  /\ color = "" /\ thickness = "" /\ ret_per = ""
  /\ cpc = "input"
  /\ comids = << >> /\ rawdates = << >>
  /\ qout = [max |-> << >>, avg |-> << >>]
  /\ rp_df = << >>
  /\ pc = "idle"
  /\ dates = << >> /\ interp_x = << >> /\ new_dates = << >> /\ dt_dates = << >>
  /\ maxlist = << >> /\ meanlist = << >>
  /\ work = << >>
  /\ summary_table_df = << >>
  /\ csv = NoFile
  /\ result = "running"
  /\ exc = "none"

ClassifyRow ==
  /\ cpc = "input"
  /\ color' = Color(f_mean, thresholds)
  /\ thickness' = Thickness(f_mean)
  /\ ret_per' = RetPer(f_mean, thresholds)
  /\ cpc' = "classified"
  /\ UNCHANGED <<inputVars, gridVars, statVars, f_mean, thresholds, pc, work,
                 summary_table_df, csv, result, exc>>

NextClassify == ClassifyRow

SpecClassify == InitClassify /\ [][NextClassify]_vars

\* ================================================================ claims
Colors == {"blue", "yellow", "red", "purple"}
ColorOrd(c) ==
  CASE c = "blue" -> 0 [] c = "yellow" -> 1 [] c = "red" -> 2 [] c = "purple" -> 3
ThickOrd(t) ==
  CASE t = "1" -> 1 [] t = "2" -> 2 [] t = "3" -> 3 [] t = "4" -> 4
    [] t = "5" -> 5 [] t = "6" -> 6
RetOrd(r) ==
  CASE r = "0" -> 0 [] r = "2" -> 1 [] r = "5" -> 2 [] r = "10" -> 3
    [] r = "25" -> 4 [] r = "50" -> 5 [] r = "100" -> 6

\* The thresholds do not decrease with the return period.
OrderedRp(rp) ==
  /\ RLe(rp.return_2, rp.return_5) /\ RLe(rp.return_5, rp.return_10)
  /\ RLe(rp.return_10, rp.return_25) /\ RLe(rp.return_25, rp.return_50)
  /\ RLe(rp.return_50, rp.return_100)

Exceeds(k) == RGt(f_mean, k)

\* The color is the one the ordered strict comparisons give.
ColorByChain ==
  /\ color \in Colors
  /\ color = "purple" <=> Exceeds(thresholds.return_50)
  /\ color = "red" <=> ~Exceeds(thresholds.return_50) /\ Exceeds(thresholds.return_10)
  /\ color = "yellow" <=> /\ ~Exceeds(thresholds.return_50)
                          /\ ~Exceeds(thresholds.return_10)
                          /\ Exceeds(thresholds.return_2)
  /\ color = "blue" <=> /\ ~Exceeds(thresholds.return_50)
                        /\ ~Exceeds(thresholds.return_10)
                        /\ ~Exceeds(thresholds.return_2)

\* C1, as stated: the color follows the ordered strict comparisons purple
\* (> return_50), red (> return_10), yellow (> return_2), blue, and a mean
\* equal to return_50 gives "red"; here for ordered threshold tables only.
C1_AsStated ==
  (cpc = "classified" /\ OrderedRp(thresholds)) =>
    /\ ColorByChain
    /\ f_mean = thresholds.return_50 => color = "red"

\* C1, amended: the color follows the ordered strict comparisons, is one of
\* the four values, and a mean equal to return_50 is never "purple": it is
\* "red" when return_10 is below return_50, and otherwise what the rest of
\* the chain gives ("yellow" or "blue").
C1_Color ==
  cpc = "classified" =>
    /\ ColorByChain
    /\ f_mean = thresholds.return_50 =>
         /\ color # "purple"
         /\ RLt(thresholds.return_10, thresholds.return_50) => color = "red"
         /\ ~RLt(thresholds.return_10, thresholds.return_50) =>
              color \in {"yellow", "blue"}

C1_Witness ==
  /\ cpc = "classified"
  /\ OrderedRp(thresholds)
  /\ f_mean = thresholds.return_50
  /\ RLt(thresholds.return_10, thresholds.return_50)
  /\ color = "red"

\* C2: the return-period label is the highest threshold the mean strictly
\* exceeds, tested from return_100 downward, first match wins, "0" when
\* none; a mean equal to a threshold does not get that threshold's label
\* from it.
C2_RetPer ==
  cpc = "classified" =>
    /\ ret_per = "100" <=> Exceeds(thresholds.return_100)
    /\ ret_per = "50" <=> ~Exceeds(thresholds.return_100) /\ Exceeds(thresholds.return_50)
    /\ ret_per = "25" <=> /\ ~Exceeds(thresholds.return_100)
                          /\ ~Exceeds(thresholds.return_50)
                          /\ Exceeds(thresholds.return_25)
    /\ ret_per = "10" <=> /\ ~Exceeds(thresholds.return_100)
                          /\ ~Exceeds(thresholds.return_50)
                          /\ ~Exceeds(thresholds.return_25)
                          /\ Exceeds(thresholds.return_10)
    /\ ret_per = "5" <=> /\ ~Exceeds(thresholds.return_100)
                         /\ ~Exceeds(thresholds.return_50)
                         /\ ~Exceeds(thresholds.return_25)
                         /\ ~Exceeds(thresholds.return_10)
                         /\ Exceeds(thresholds.return_5)
    /\ ret_per = "2" <=> /\ ~Exceeds(thresholds.return_100)
                         /\ ~Exceeds(thresholds.return_50)
                         /\ ~Exceeds(thresholds.return_25)
                         /\ ~Exceeds(thresholds.return_10)
                         /\ ~Exceeds(thresholds.return_5)
                         /\ Exceeds(thresholds.return_2)
    /\ ret_per = "0" <=> \A k \in {thresholds.return_2, thresholds.return_5,
                                   thresholds.return_10, thresholds.return_25,
                                   thresholds.return_50, thresholds.return_100} :
                            ~Exceeds(k)
    /\ f_mean = thresholds.return_100 => ret_per # "100"
    /\ (f_mean = thresholds.return_50 /\ OrderedRp(thresholds)) =>
         ret_per \notin {"50", "100"}

C2_Witness ==
  /\ cpc = "classified"
  /\ OrderedRp(thresholds)
  /\ f_mean = thresholds.return_100
  /\ RLt(thresholds.return_50, thresholds.return_100)
  /\ ret_per = "50"

\* C3: the thickness depends on the mean alone and is the label of the one
\* band [lo, hi) that holds it: <20 "1", [20,250) "2", [250,1500) "3",
\* [1500,10000) "4", [10000,30000) "5", >=30000 "6"; a mean of 20 gives "2".
C3_Thickness ==
  (cpc = "classified" /\ RLe(Num(0), f_mean)) =>
    /\ thickness = "1" <=> RLt(f_mean, Num(20))
    /\ thickness = "2" <=> RLe(Num(20), f_mean) /\ RLt(f_mean, Num(250))
    /\ thickness = "3" <=> RLe(Num(250), f_mean) /\ RLt(f_mean, Num(1500))
    /\ thickness = "4" <=> RLe(Num(1500), f_mean) /\ RLt(f_mean, Num(10000))
    /\ thickness = "5" <=> RLe(Num(10000), f_mean) /\ RLt(f_mean, Num(30000))
    /\ thickness = "6" <=> RLe(Num(30000), f_mean)
    /\ thickness \in {"1", "2", "3", "4", "5", "6"}
    /\ f_mean = Num(20) => thickness = "2"

C3_Witness == cpc = "classified" /\ f_mean = Num(20) /\ thickness = "2"

\* C4: with the thresholds fixed, a mean that is not larger never gets a
\* higher color, thickness or return-period label than the classified one.
C4_Monotone ==
  cpc = "classified" =>
    \A m \in MeanValues :
      RLe(m, f_mean) =>
        /\ ColorOrd(Color(m, thresholds)) <= ColorOrd(color)
        /\ ThickOrd(Thickness(m)) <= ThickOrd(thickness)
        /\ RetOrd(RetPer(m, thresholds)) <= RetOrd(ret_per)

C4_Witness ==
  /\ cpc = "classified"
  /\ \E m \in MeanValues :
       /\ RLt(m, f_mean)
       /\ ColorOrd(Color(m, thresholds)) < ColorOrd(color)
       /\ ThickOrd(Thickness(m)) < ThickOrd(thickness)
       /\ RetOrd(RetPer(m, thresholds)) < RetOrd(ret_per)

\* ------------------------------------------------------- the whole run
GridLen == Len(interp_x)

\* The reach at position i of comids has valid data: two samples or more
\* at strictly increasing times, and a row of thresholds.
ReachValid(i) ==
  /\ Len(rawdates) >= 2
  /\ StrictlyIncreasing(rawdates)
  /\ comids[i] \in DOMAIN rp_df
ValidReaches == {i \in 1..Len(comids) : ReachValid(i)}
NumValid == Cardinality(ValidReaches)

C6_Layout ==
  (pc = "done" /\ Len(comids) >= 1 /\ NumValid = Len(comids)) =>
    /\ csv.written
    /\ Len(csv.rows) = Len(comids) * GridLen
    /\ \A k \in 1..Len(comids) : \A j \in 1..GridLen :
         LET row == csv.rows[(k - 1) * GridLen + j]
         IN  /\ row.comid = comids[k]
             /\ row.timestamp = new_dates[j]
             /\ row.max = Round2(PchipEval(dt_dates, maxlist[k], interp_x[j]))
             /\ row.mean = Round2(PchipEval(dt_dates, meanlist[k], interp_x[j]))

\* C7, as stated: when some reach fails (here: it has no thresholds) and
\* another has valid data, the run is not aborted and the table holds the
\* full set of rows of every valid reach.
C7_SkipOnly ==
  (pc = "done" /\ NumValid >= 1 /\ NumValid < Len(comids)) =>
    /\ result = "Stat Success"
    /\ csv.written
    /\ Len(csv.rows) = NumValid * GridLen

\* C8, as stated: the grid starts at the first original timestamp, its
\* points are 3 hours apart, and its last point is the largest
\* start + 3h*k that is not after the last original timestamp; for
\* [t0, t0+1h, t0+5h] it is [t0, t0+3h].
C8_Grid ==
  (pc \notin {"start", "idle"} /\ Len(rawdates) >= 2 /\ StrictlyIncreasing(rawdates)) =>
    /\ GridLen >= 1
    /\ interp_x[1] = rawdates[1]
    /\ \A j \in 1..(GridLen - 1) : interp_x[j + 1] = interp_x[j] + Freq3H
    /\ interp_x[GridLen] <= rawdates[Len(rawdates)]
    /\ rawdates[Len(rawdates)] < interp_x[GridLen] + Freq3H
    /\ (rawdates[2] = rawdates[1] + 3600 /\ rawdates[Len(rawdates)] = rawdates[1] + 18000)
         => interp_x = <<rawdates[1], rawdates[1] + Freq3H>>

\* ------------------------------------------------------ the loop's rows
RowComplete(r) ==
  /\ r.comid # NoComid /\ r.timestamp # NaT
  /\ r.max # NaN /\ r.mean # NaN
  /\ r.color # NaS /\ r.thickness # NaS /\ r.ret_per # NaS

\* The rows are whole blocks: one complete row per grid timestamp, in grid
\* order, for each of at most Len(comids) reaches.
WholeBlocks(rows) ==
  IF Len(new_dates) = 0 THEN rows = << >>
  ELSE /\ Len(rows) % Len(new_dates) = 0
       /\ Len(rows) \div Len(new_dates) <= Len(comids)
       /\ \A i \in 1..Len(rows) :
            /\ RowComplete(rows[i])
            /\ rows[i].timestamp = new_dates[((i - 1) % Len(new_dates)) + 1]

====
